---- MODULE Spec2Model ----
(***************************************************************************)
(* Model of the drawing-lock notifier (class WebSocketClient, the          *)
(* websocketClient singleton) of cad-drawing-manager.                      *)
(*                                                                         *)
(* The client methods are operators from a client state st (a record of    *)
(* the object's fields plus the outputs of the running call) to the state  *)
(* after the call, so that a method calling another one (subscribeDrawing  *)
(* calls connect) is a composition.  Each action of the state machine is   *)
(* one whole call, or one whole transport event with the listener it runs. *)
(***************************************************************************)
EXTENDS Integers, Sequences, FiniteSets, TLC

\* Inputs the environment draws from.
DrawingIds == {"drawing-42", "drawing-7"}
Handlers == {"H1", "H2"}
Users == {"alice", "bob"}

\* Bounds of the model.
MaxTransports == 2    \* transports io() creates in one behaviour
MaxRegistered == 3    \* handlers held by the registry at one time

\* io(..., { reconnectionAttempts: 5 })
reconnectionAttempts == 5

VARIABLES
  socket,         \* this.socket: 0 is null, otherwise an index into sockets
  sockets,        \* every transport io() has created, in creation order
  subscriptions,  \* this.subscriptions: drawing id -> list of registrations
  invoked,        \* the handler calls made by the last step, in order
  emitted,        \* the messages the last step emitted to the server
  last,           \* the last call or transport event
  announced,      \* history: the drawing ids whose latest message emitted on
                  \* the transport the handle refers to is subscribe_drawing
  tracking        \* whether this behaviour records the history announced

\* The PDF viewer component (PDFViewer.tsx): its props, its useState cells
\* and the outputs of its last step.
VARIABLES
  pageNumber,     \* the pageNumber prop at mount
  pdf,            \* pdf: 0 is null, otherwise numPages of the loaded document
  currentPage,    \* currentPage
  totalPages,     \* totalPages
  scale,          \* scale, in hundredths (1.0 is 100)
  rotation,       \* rotation, in degrees
  isLoading,      \* isLoading
  pending,        \* loadPdf() calls whose getDocument promise is not settled
  pageChanges,    \* the onPageChange calls made by the last step
  fitted,         \* history: handleFitToWidth has set the scale
  viewerLast      \* the last handler or load event of the viewer

notifierVars == <<socket, sockets, subscriptions, invoked, emitted, last,
                  announced, tracking>>

viewerVars == <<pageNumber, pdf, currentPage, totalPages, scale, rotation,
                isLoading, pending, pageChanges, fitted, viewerLast>>

vars == <<notifierVars, viewerVars>>

(***************************************************************************)
(* The registry: Map<string, DrawingEventHandler[]>.                       *)
(* A registration is the handler pushed by one subscribeDrawing call.  Two *)
(* of its fields are history that no code reads: registered_for is the     *)
(* drawingId argument of that call, and stale is set when disconnect() is  *)
(* called while the registration is in the registry.                       *)
(***************************************************************************)
EmptyMap == [d \in {} |-> <<>>]

Registration(drawingId, handler) ==
  [handler |-> handler, registered_for |-> drawingId, stale |-> FALSE]

MapHas(m, k) == k \in DOMAIN m

MapSet(m, k, v) == [x \in DOMAIN m \cup {k} |-> IF x = k THEN v ELSE m[x]]

MapDelete(m, k) == [x \in DOMAIN m \ {k} |-> m[x]]

MapClear(m) == EmptyMap

RECURSIVE SumLen(_, _)
SumLen(m, ks) ==
  IF ks = {} THEN 0
  ELSE LET k == CHOOSE x \in ks : TRUE IN Len(m[k]) + SumLen(m, ks \ {k})

Registered(m) == SumLen(m, DOMAIN m)

HandlersOf(list) == [i \in 1..Len(list) |-> list[i].handler]

MarkStale(m) ==
  [d \in DOMAIN m |-> [i \in 1..Len(m[d]) |-> [m[d][i] EXCEPT !.stale = TRUE]]]

(***************************************************************************)
(* The transport: a socket.io Socket.                                      *)
(***************************************************************************)
\* io(url, opts): a new socket that starts connecting, with no listener yet.
io == [status |-> "connecting", attempts |-> 0, listeners |-> 0]

\* socket.connected
SocketConnected(s) == s.status = "connected"

\* this.socket?.connected
Connected(st) == st.socket # 0 /\ SocketConnected(st.sockets[st.socket])

\* The five this.socket.on(...) calls of connect(): one more set of listeners.
On(s) == [s EXCEPT !.listeners = @ + 1]

\* socket.disconnect(): the client closes the transport; no reconnection.
SocketDisconnect(s) == [s EXCEPT !.status = "closed", !.attempts = 0]

\* A transport is open while it is connected or still trying to connect.
Open(s) == s.status \in {"connecting", "connected"}

\* socket.emit(event, payload) on the client's current socket.
Emit(st, event, drawingId) ==
  [st EXCEPT !.emitted =
     Append(@, [socket |-> st.socket, event |-> event, drawing_id |-> drawingId])]

(***************************************************************************)
(* The client's methods.                                                   *)
(***************************************************************************)
\* Mutant: connect() without its already-connected check.
connect_always(st) ==
  [st EXCEPT !.sockets = Append(@, On(io)),
             !.socket = Len(st.sockets) + 1]

connect(st) ==
  IF Connected(st) THEN st
  ELSE [st EXCEPT !.sockets = Append(@, On(io)),
                  !.socket = Len(st.sockets) + 1]

\* Mutant: disconnect() without this.subscriptions.clear().
disconnect_keepSubscriptions(st) ==
  LET called == [st EXCEPT !.subscriptions = MarkStale(@)] IN
  IF called.socket # 0
  THEN [called EXCEPT !.sockets[called.socket] = SocketDisconnect(@),
                      !.socket = 0]
  ELSE called

disconnect(st) ==
  LET called == [st EXCEPT !.subscriptions = MarkStale(@)] IN
  IF called.socket # 0
  THEN [called EXCEPT !.sockets[called.socket] = SocketDisconnect(@),
                      !.socket = 0,
                      !.subscriptions = MapClear(@)]
  ELSE called

\* Mutant: the server is notified before the connection check, on whatever
\* socket the client holds at that point.
subscribeDrawing_emitFirst(st, drawingId, handler) ==
  LET s0 == IF st.socket # 0 THEN Emit(st, "subscribe_drawing", drawingId) ELSE st
      s1 == IF ~Connected(s0) THEN connect(s0) ELSE s0
      s2 == IF ~MapHas(s1.subscriptions, drawingId)
            THEN [s1 EXCEPT !.subscriptions = MapSet(@, drawingId, <<>>)]
            ELSE s1
  IN  [s2 EXCEPT !.subscriptions[drawingId] =
                    Append(@, Registration(drawingId, handler))]

\* Mutant: a handler already in the list of drawingId is not pushed again.
subscribeDrawing_dedup(st, drawingId, handler) ==
  LET s1 == IF ~Connected(st) THEN connect(st) ELSE st
      s2 == IF ~MapHas(s1.subscriptions, drawingId)
            THEN [s1 EXCEPT !.subscriptions = MapSet(@, drawingId, <<>>)]
            ELSE s1
      has == \E i \in 1..Len(s2.subscriptions[drawingId]) :
               s2.subscriptions[drawingId][i].handler = handler
      s3 == IF has THEN s2
            ELSE [s2 EXCEPT !.subscriptions[drawingId] =
                               Append(@, Registration(drawingId, handler))]
  IN  IF s3.socket # 0 THEN Emit(s3, "subscribe_drawing", drawingId) ELSE s3

\* Mutant: subscribeDrawing without its implicit connect().
subscribeDrawing_noConnect(st, drawingId, handler) ==
  LET s2 == IF ~MapHas(st.subscriptions, drawingId)
            THEN [st EXCEPT !.subscriptions = MapSet(@, drawingId, <<>>)]
            ELSE st
      s3 == [s2 EXCEPT !.subscriptions[drawingId] =
                          Append(@, Registration(drawingId, handler))]
  IN  IF s3.socket # 0 THEN Emit(s3, "subscribe_drawing", drawingId) ELSE s3

subscribeDrawing(st, drawingId, handler) ==
  LET s1 == IF ~Connected(st) THEN connect(st) ELSE st
      s2 == IF ~MapHas(s1.subscriptions, drawingId)
            THEN [s1 EXCEPT !.subscriptions = MapSet(@, drawingId, <<>>)]
            ELSE s1
      s3 == [s2 EXCEPT !.subscriptions[drawingId] =
                          Append(@, Registration(drawingId, handler))]
  IN  IF s3.socket # 0 THEN Emit(s3, "subscribe_drawing", drawingId) ELSE s3

\* Mutant: only the most recently registered handler of drawingId is removed.
unsubscribeDrawing_removeOne(st, drawingId) ==
  LET list == IF MapHas(st.subscriptions, drawingId)
              THEN st.subscriptions[drawingId] ELSE <<>>
      s1 == IF Len(list) > 1
            THEN [st EXCEPT !.subscriptions[drawingId] = SubSeq(list, 1, Len(list) - 1)]
            ELSE [st EXCEPT !.subscriptions = MapDelete(@, drawingId)]
  IN  IF s1.socket # 0 THEN Emit(s1, "unsubscribe_drawing", drawingId) ELSE s1

\* Mutant: unsubscribeDrawing discards the whole registry.
unsubscribeDrawing_clearAll(st, drawingId) ==
  LET s1 == [st EXCEPT !.subscriptions = MapClear(@)]
  IN  IF s1.socket # 0 THEN Emit(s1, "unsubscribe_drawing", drawingId) ELSE s1

unsubscribeDrawing(st, drawingId) ==
  LET s1 == [st EXCEPT !.subscriptions = MapDelete(@, drawingId)]
  IN  IF s1.socket # 0 THEN Emit(s1, "unsubscribe_drawing", drawingId) ELSE s1

isConnected(st) == IF st.socket # 0 THEN SocketConnected(st.sockets[st.socket]) ELSE FALSE

(***************************************************************************)
(* The listeners connect() registers.                                      *)
(***************************************************************************)
Invoke(st, handlers, event) ==
  [st EXCEPT !.invoked =
     @ \o [i \in 1..Len(handlers) |-> [handler |-> handlers[i], data |-> event]]]

\* Mutant: a missing subscriber list is created empty by the lookup.
drawing_locked_getOrCreate(st, data) ==
  LET s1 == IF MapHas(st.subscriptions, data.drawing_id) THEN st
            ELSE [st EXCEPT !.subscriptions = MapSet(@, data.drawing_id, <<>>)]
  IN  Invoke(s1, s1.subscriptions[data.drawing_id],
             [type |-> "locked", drawing_id |-> data.drawing_id,
              locked_by |-> data.locked_by])

\* Mutant: the handlers are run from the last registered to the first.
drawing_locked_reversed(st, data) ==
  IF MapHas(st.subscriptions, data.drawing_id)
  THEN LET handlers == st.subscriptions[data.drawing_id] IN
       Invoke(st, [i \in 1..Len(handlers) |-> handlers[Len(handlers) + 1 - i]],
              [type |-> "locked", drawing_id |-> data.drawing_id,
               locked_by |-> data.locked_by])
  ELSE st

drawing_locked(st, data) ==
  IF MapHas(st.subscriptions, data.drawing_id)
  THEN Invoke(st, st.subscriptions[data.drawing_id],
              [type |-> "locked", drawing_id |-> data.drawing_id,
               locked_by |-> data.locked_by])
  ELSE st

\* Mutant: the unlocked listener builds the event of the locked listener.
drawing_unlocked_asLocked(st, data) ==
  IF MapHas(st.subscriptions, data.drawing_id)
  THEN Invoke(st, st.subscriptions[data.drawing_id],
              [type |-> "locked", drawing_id |-> data.drawing_id,
               locked_by |-> "undefined"])
  ELSE st

drawing_unlocked(st, data) ==
  IF MapHas(st.subscriptions, data.drawing_id)
  THEN Invoke(st, st.subscriptions[data.drawing_id],
              [type |-> "unlocked", drawing_id |-> data.drawing_id])
  ELSE st

\* Every registration of the registry, list after list (used by mutants).
RECURSIVE AllLists(_, _)
AllLists(m, ks) ==
  IF ks = {} THEN <<>>
  ELSE LET k == CHOOSE x \in ks : TRUE IN m[k] \o AllLists(m, ks \ {k})

\* Mutant: an error or lifecycle event is passed on to every subscriber.
LogOnly_propagate(st) ==
  Invoke(st, AllLists(st.subscriptions, DOMAIN st.subscriptions),
         [type |-> "error", drawing_id |-> "none"])

\* console.log / console.error only.
LogOnly(st) == st

\* Mutant: a lock or unlock event is dispatched to the handlers of every
\* drawing id, not only to those of data.drawing_id.
Listener_broadcast(st, event, data) ==
  LET all == MapSet(EmptyMap, data.drawing_id,
                    AllLists(st.subscriptions, DOMAIN st.subscriptions))
  IN  CASE event = "drawing_locked" ->
             drawing_locked([st EXCEPT !.subscriptions = all], data)
        [] event = "drawing_unlocked" ->
             drawing_unlocked([st EXCEPT !.subscriptions = all], data)
        [] OTHER -> LogOnly(st)

\* The listener of an inbound event.
Listener(st, event, data) ==
  CASE event = "drawing_locked" -> drawing_locked(st, data)
    [] event = "drawing_unlocked" -> drawing_unlocked(st, data)
    [] OTHER -> LogOnly(st)

\* A socket runs the listener of an event once per registration of it.
RECURSIVE Fire(_, _, _, _)
Fire(st, n, event, data) ==
  IF n = 0 THEN st ELSE Fire(Listener(st, event, data), n - 1, event, data)

(***************************************************************************)
(* The state machine.                                                      *)
(***************************************************************************)
\* The client state at the start of a step: the fields, and no output yet.
Cur == [socket |-> socket, sockets |-> sockets, subscriptions |-> subscriptions,
        invoked |-> <<>>, emitted |-> <<>>]

\* What the server has been told on transport handle: ids after the messages
\* msgs, given the ids before them.
RECURSIVE Announce(_, _, _)
Announce(ids, msgs, handle) ==
  IF msgs = <<>> THEN ids
  ELSE LET m == Head(msgs) IN
       Announce(IF m.socket # handle THEN ids
                ELSE IF m.event = "subscribe_drawing" THEN ids \cup {m.drawing_id}
                ELSE ids \ {m.drawing_id},
                Tail(msgs), handle)

Commit(st, what) ==
  /\ socket' = st.socket
  /\ sockets' = st.sockets
  /\ subscriptions' = st.subscriptions
  /\ invoked' = st.invoked
  /\ emitted' = st.emitted
  /\ last' = what
  /\ announced' = IF tracking
                  THEN Announce(IF st.socket = socket THEN announced ELSE {},
                                st.emitted, st.socket)
                  ELSE announced
  /\ UNCHANGED tracking
  /\ UNCHANGED viewerVars

\* The notifier after construction.
New ==
  /\ socket = 0
  /\ sockets = <<>>
  /\ subscriptions = EmptyMap
  /\ invoked = <<>>
  /\ emitted = <<>>
  /\ last = [op |-> "new"]
  /\ announced = {}

(***************************************************************************)
(* The PDF viewer.  The scale is kept in hundredths: every value the zoom  *)
(* handlers compute from 1.0 is a multiple of 0.25, which binary floating  *)
(* point represents exactly.                                               *)
(***************************************************************************)
\* Bounds of the viewer model.
MaxPages == 3     \* pages of a document
MaxPending == 1   \* document loads in flight at one time

\* The pageNumber props the viewer is mounted with.
InitialPages == {1, 2}

\* containerWidth / canvas.width values handleFitToWidth computes.
FitScales == {133}

\* handleZoomIn: prev + 0.25, at most 3.0; handleZoomOut: prev - 0.25, at
\* least 0.5.
ZoomStep == 25
MaxScale == 300
MinScale == 50

Min(a, b) == IF a < b THEN a ELSE b

Max(a, b) == IF a > b THEN a ELSE b

\* Mutant: zoom in without the upper limit.
ZoomIn_unclamped(prev) == prev + ZoomStep

\* setScale((prev) => Math.min(prev + 0.25, 3.0))
ZoomIn(prev) == Min(prev + ZoomStep, MaxScale)

\* setScale((prev) => Math.max(prev - 0.25, 0.5))
ZoomOut(prev) == Max(prev - ZoomStep, MinScale)

\* setRotation((prev) => (prev + 90) % 360)
Rotate(prev) == (prev + 90) % 360

\* The component after its first render with prop pageNumber = p: the state
\* initialisers, and the load effect has called loadPdf().
Mounted(p) ==
  /\ pageNumber = p
  /\ pdf = 0
  /\ currentPage = p
  /\ totalPages = 0
  /\ scale = 100
  /\ rotation = 0
  /\ isLoading = TRUE
  /\ pending = 1
  /\ pageChanges = <<>>
  /\ fitted = FALSE
  /\ viewerLast = "mount"

\* getDocument(pdfUrl) resolves with a document of n pages.
LoadResolves(n) ==
  /\ pending > 0
  /\ pdf' = n
  /\ totalPages' = n
  /\ isLoading' = FALSE
  /\ pending' = pending - 1
  /\ pageChanges' = <<>>
  /\ viewerLast' = "load_resolves"
  /\ UNCHANGED <<pageNumber, currentPage, scale, rotation, fitted>>
  /\ UNCHANGED notifierVars

\* getDocument(pdfUrl) rejects: the catch branch.
LoadRejects ==
  /\ pending > 0
  /\ isLoading' = FALSE
  /\ pending' = pending - 1
  /\ pageChanges' = <<>>
  /\ viewerLast' = "load_rejects"
  /\ UNCHANGED <<pageNumber, pdf, currentPage, totalPages, scale, rotation, fitted>>
  /\ UNCHANGED notifierVars

\* The parent passes another pdfUrl: the load effect runs loadPdf() again.
ChangePdfUrl ==
  /\ pending < MaxPending
  /\ isLoading' = TRUE
  /\ pending' = pending + 1
  /\ pageChanges' = <<>>
  /\ viewerLast' = "pdfUrl"
  /\ UNCHANGED <<pageNumber, pdf, currentPage, totalPages, scale, rotation, fitted>>
  /\ UNCHANGED notifierVars

\* The control bar is rendered only when isLoading is false.
Rendered == ~isLoading

handlePrevPage ==
  /\ Rendered
  /\ IF currentPage > 1
     THEN /\ currentPage' = currentPage - 1
          /\ pageChanges' = <<currentPage - 1>>
     ELSE /\ currentPage' = currentPage
          /\ pageChanges' = <<>>
  /\ viewerLast' = "handlePrevPage"
  /\ UNCHANGED <<pageNumber, pdf, totalPages, scale, rotation, isLoading,
                 pending, fitted>>
  /\ UNCHANGED notifierVars

handleNextPage ==
  /\ Rendered
  /\ IF currentPage < totalPages
     THEN /\ currentPage' = currentPage + 1
          /\ pageChanges' = <<currentPage + 1>>
     ELSE /\ currentPage' = currentPage
          /\ pageChanges' = <<>>
  /\ viewerLast' = "handleNextPage"
  /\ UNCHANGED <<pageNumber, pdf, totalPages, scale, rotation, isLoading,
                 pending, fitted>>
  /\ UNCHANGED notifierVars

\* A handler that only sets scale, rotation or both.
SetView(newScale, newRotation, fit, what) ==
  /\ Rendered
  /\ scale' = newScale
  /\ rotation' = newRotation
  /\ fitted' = (fitted \/ fit)
  /\ pageChanges' = <<>>
  /\ viewerLast' = what
  /\ UNCHANGED <<pageNumber, pdf, currentPage, totalPages, isLoading, pending>>
  /\ UNCHANGED notifierVars

handleZoomIn == SetView(ZoomIn(scale), rotation, FALSE, "handleZoomIn")

handleZoomOut == SetView(ZoomOut(scale), rotation, FALSE, "handleZoomOut")

handleRotate == SetView(scale, Rotate(rotation), FALSE, "handleRotate")

handleFitToWidth(ratio) == SetView(ratio, rotation, TRUE, "handleFitToWidth")

NextViewer ==
  \/ \E n \in 1..MaxPages : LoadResolves(n)
  \/ LoadRejects
  \/ ChangePdfUrl
  \/ handlePrevPage
  \/ handleNextPage
  \/ handleZoomIn
  \/ handleZoomOut
  \/ handleRotate
  \/ \E ratio \in FitScales : handleFitToWidth(ratio)

Init == New /\ tracking = FALSE /\ Mounted(1)

InitViewer == New /\ tracking = FALSE /\ \E p \in InitialPages : Mounted(p)

SpecViewer == InitViewer /\ [][NextViewer]_vars

\* connect() creates a transport unless the current one is connected.
CanConnect == Connected(Cur) \/ Len(sockets) < MaxTransports

CallConnect ==
  /\ CanConnect
  /\ Commit(connect(Cur), [op |-> "connect"])

CallDisconnect ==
  Commit(disconnect(Cur),
         [op |-> "disconnect", cleared |-> Registered(subscriptions)])

CallSubscribeDrawing(drawingId, handler) ==
  /\ CanConnect
  /\ Registered(subscriptions) < MaxRegistered
  /\ Commit(subscribeDrawing(Cur, drawingId, handler),
            [op |-> "subscribeDrawing", drawing_id |-> drawingId,
             handler |-> handler])

CallUnsubscribeDrawing(drawingId) ==
  Commit(unsubscribeDrawing(Cur, drawingId),
         [op |-> "unsubscribeDrawing", drawing_id |-> drawingId,
          removed |-> IF MapHas(subscriptions, drawingId)
                      THEN HandlersOf(subscriptions[drawingId]) ELSE <<>>])

CallIsConnected ==
  Commit(Cur, [op |-> "isConnected", ret |-> isConnected(Cur)])

\* The transport's connection attempt succeeds: 'connect' fires.
TransportConnect(s) ==
  /\ sockets[s].status = "connecting"
  /\ Commit(Fire([Cur EXCEPT !.sockets[s].status = "connected",
                             !.sockets[s].attempts = 0],
                 sockets[s].listeners, "connect", [reason |-> "open"]),
            [op |-> "transport_connect", socket |-> s])

\* The connection drops: 'disconnect' fires and the first reconnection
\* attempt starts.
TransportDisconnect(s) ==
  /\ sockets[s].status = "connected"
  /\ Commit(Fire([Cur EXCEPT !.sockets[s].status = "connecting",
                             !.sockets[s].attempts = 1],
                 sockets[s].listeners, "disconnect", [reason |-> "transport close"]),
            [op |-> "transport_disconnect", socket |-> s])

\* A connection attempt fails: the next reconnection attempt is scheduled, or,
\* after reconnectionAttempts of them, the transport gives up.
TransportAttemptFails(s) ==
  /\ sockets[s].status = "connecting"
  /\ Commit(IF sockets[s].attempts >= reconnectionAttempts
            THEN [Cur EXCEPT !.sockets[s].status = "failed"]
            ELSE [Cur EXCEPT !.sockets[s].attempts = @ + 1],
            [op |-> "transport_attempt_fails", socket |-> s])

\* The server pushes a message on a connected transport.
Receive(s, event, data) ==
  /\ sockets[s].status = "connected"
  /\ Commit(Fire(Cur, sockets[s].listeners, event, data),
            [op |-> event, socket |-> s, data |-> data])

Next ==
  \/ CallConnect
  \/ CallDisconnect
  \/ \E d \in DrawingIds, h \in Handlers : CallSubscribeDrawing(d, h)
  \/ \E d \in DrawingIds : CallUnsubscribeDrawing(d)
  \/ CallIsConnected
  \/ \E s \in 1..Len(sockets) : TransportConnect(s)
  \/ \E s \in 1..Len(sockets) : TransportDisconnect(s)
  \/ \E s \in 1..Len(sockets) : TransportAttemptFails(s)
  \/ \E s \in 1..Len(sockets), d \in DrawingIds, u \in Users :
       Receive(s, "drawing_locked", [drawing_id |-> d, locked_by |-> u])
  \/ \E s \in 1..Len(sockets), d \in DrawingIds :
       Receive(s, "drawing_unlocked", [drawing_id |-> d])
  \/ \E s \in 1..Len(sockets) : Receive(s, "error", [message |-> "error"])

Spec == Init /\ [][Next]_vars

(***************************************************************************)
(* Handlers that throw.  In Spec every handler returns normally.  In       *)
(* SpecThrowing a lock or unlock message may also arrive while one of the  *)
(* handlers registered for its drawing id throws when it is called: the    *)
(* exception leaves handlers.forEach, so the handlers after it in the list *)
(* are not called.                                                         *)
(***************************************************************************)
\* The calls forEach makes when handler f throws: up to its first call.
AbortAtThrow(calls, f) ==
  LET at == {i \in 1..Len(calls) : calls[i].handler.handler = f} IN
  IF at = {} THEN calls
  ELSE SubSeq(calls, 1, CHOOSE i \in at : \A j \in at : i <= j)

ReceiveThrowing(s, event, data, f) ==
  /\ sockets[s].status = "connected"
  /\ MapHas(subscriptions, data.drawing_id)
  /\ \E i \in 1..Len(subscriptions[data.drawing_id]) :
       subscriptions[data.drawing_id][i].handler = f
  /\ LET st == Fire(Cur, sockets[s].listeners, event, data) IN
     Commit([st EXCEPT !.invoked = AbortAtThrow(@, f)],
            [op |-> event, socket |-> s, data |-> data, thrown_by |-> f])

NextThrowing ==
  \/ Next
  \/ \E s \in 1..Len(sockets), d \in DrawingIds, u \in Users, f \in Handlers :
       ReceiveThrowing(s, "drawing_locked",
                       [drawing_id |-> d, locked_by |-> u], f)
  \/ \E s \in 1..Len(sockets), d \in DrawingIds, f \in Handlers :
       ReceiveThrowing(s, "drawing_unlocked", [drawing_id |-> d], f)

SpecThrowing == Init /\ [][NextThrowing]_vars

\* The same program, with the history of announced drawing ids recorded.
InitAnnounced == New /\ tracking = TRUE /\ Mounted(1)

SpecAnnounced == InitAnnounced /\ [][Next]_vars

\* The shape of the state: the fields of lines 20-21 and the transports.
TypeOK ==
  /\ socket \in 0..Len(sockets)
  /\ \A s \in 1..Len(sockets) :
       /\ sockets[s].status \in {"connecting", "connected", "closed", "failed"}
       /\ sockets[s].attempts \in 0..reconnectionAttempts
       /\ sockets[s].listeners \in Nat
  /\ DOMAIN subscriptions \subseteq DrawingIds
  /\ \A d \in DOMAIN subscriptions :
       \A i \in 1..Len(subscriptions[d]) :
         /\ subscriptions[d][i].handler \in Handlers
         /\ subscriptions[d][i].registered_for \in DrawingIds
         /\ subscriptions[d][i].stale \in BOOLEAN
  /\ announced \subseteq DrawingIds
  /\ tracking \in BOOLEAN
  /\ pageNumber \in InitialPages
  /\ pdf \in 0..MaxPages
  /\ currentPage \in Nat
  /\ totalPages \in 0..MaxPages
  /\ scale \in Nat
  /\ rotation \in Nat
  /\ isLoading \in BOOLEAN
  /\ pending \in 0..MaxPending
  /\ pageChanges \in Seq(Nat)
  /\ fitted \in BOOLEAN

(***************************************************************************)
(* Properties of the notifier.                                             *)
(***************************************************************************)
\* The event a locked message {drawing_id: d, locked_by: u} is turned into.
LockedEvent(d, u) == [type |-> "locked", drawing_id |-> d, locked_by |-> u]

\* The event an unlocked message {drawing_id: d} is turned into.
UnlockedEvent(d) == [type |-> "unlocked", drawing_id |-> d]

ReceiveLocked(s, d, u) ==
  Receive(s, "drawing_locked", [drawing_id |-> d, locked_by |-> u])

ReceiveUnlocked(s, d) == Receive(s, "drawing_unlocked", [drawing_id |-> d])

Sockets == 1..Len(sockets)

\* The step is the arrival of the drawing_locked message last' names.
StepLocked ==
  /\ last'.op = "drawing_locked"
  /\ ReceiveLocked(last'.socket, last'.data.drawing_id, last'.data.locked_by)

\* The step is the arrival of the drawing_unlocked message last' names.
StepUnlocked ==
  /\ last'.op = "drawing_unlocked"
  /\ ReceiveUnlocked(last'.socket, last'.data.drawing_id)

\* The step is the subscribeDrawing call last' names.
StepSubscribe ==
  /\ last'.op = "subscribeDrawing"
  /\ CallSubscribeDrawing(last'.drawing_id, last'.handler)

\* The step is the unsubscribeDrawing call last' names.
StepUnsubscribe ==
  /\ last'.op = "unsubscribeDrawing"
  /\ CallUnsubscribeDrawing(last'.drawing_id)

StepConnect == last'.op = "connect" /\ CallConnect

StepDisconnect == last'.op = "disconnect" /\ CallDisconnect

\* The subscriber list of d, empty when d has none.
ListOf(d) == IF MapHas(subscriptions, d) THEN subscriptions[d] ELSE <<>>

\* C1: for a drawing id d with at least one registered handler, one inbound
\* drawing_locked message {d, u} invokes every handler registered for d
\* exactly once, in registration order, each with {locked, d, u}.
C1_LockedInvokesEachInOrder ==
  [][StepLocked =>
       LET d == last'.data.drawing_id
           u == last'.data.locked_by
       IN  (MapHas(subscriptions, d) /\ Len(subscriptions[d]) >= 1)
           => /\ Len(invoked') = Len(subscriptions[d])
              /\ \A i \in 1..Len(invoked') :
                   /\ invoked'[i].handler = subscriptions[d][i]
                   /\ invoked'[i].data = LockedEvent(d, u)]_vars

C1_Witness ==
  /\ last.op = "drawing_locked"
  /\ last.data = [drawing_id |-> "drawing-42", locked_by |-> "alice"]
  /\ Len(invoked) = 2
  /\ invoked[1].handler.handler = "H1"
  /\ invoked[2].handler.handler = "H2"
  /\ invoked[1].data = LockedEvent("drawing-42", "alice")

\* C2: for a drawing id d with at least one registered handler, one inbound
\* drawing_unlocked message {d} invokes every handler registered for d exactly
\* once, in registration order, each with {unlocked, d} and no locked_by field.
C2_UnlockedInvokesEachInOrder ==
  [][StepUnlocked =>
       LET d == last'.data.drawing_id
       IN  (MapHas(subscriptions, d) /\ Len(subscriptions[d]) >= 1)
           => /\ Len(invoked') = Len(subscriptions[d])
              /\ \A i \in 1..Len(invoked') :
                   /\ invoked'[i].handler = subscriptions[d][i]
                   /\ invoked'[i].data.type = "unlocked"
                   /\ invoked'[i].data.drawing_id = d
                   /\ DOMAIN invoked'[i].data = {"type", "drawing_id"}]_vars

C2_Witness ==
  /\ last.op = "drawing_unlocked"
  /\ last.data = [drawing_id |-> "drawing-7"]
  /\ Len(invoked) = 2
  /\ invoked[1].handler.handler = "H2"
  /\ invoked[2].handler.handler = "H1"
  /\ invoked[2].data = UnlockedEvent("drawing-7")

\* C3: every handler invocation passes an event whose drawing_id is the
\* drawing id the invoked handler was registered against by subscribeDrawing.
C3_InvokedOnlyForOwnDrawing ==
  \A i \in 1..Len(invoked) :
    invoked[i].data.drawing_id = invoked[i].handler.registered_for

\* The same handler is registered for both drawing ids, and an event of one
\* of them has invoked it.
C3_Witness ==
  /\ Len(invoked) >= 1
  /\ \E d \in DOMAIN subscriptions :
       /\ d # invoked[1].data.drawing_id
       /\ \E j \in 1..Len(subscriptions[d]) :
            subscriptions[d][j].handler = invoked[1].handler.handler

\* C4: unsubscribeDrawing(d) removes the whole subscriber list of d, and while
\* d has no list and no subscribeDrawing(d, _) is called, d keeps having no
\* list and no handler registered for d is invoked by any step.
C4_UnsubscribeRemovesWholeList ==
  [][/\ StepUnsubscribe => ~MapHas(subscriptions', last'.drawing_id)
     /\ \A d \in DrawingIds :
          (/\ ~MapHas(subscriptions, d)
           /\ ~(StepSubscribe /\ last'.drawing_id = d))
          => /\ ~MapHas(subscriptions', d)
             /\ \A i \in 1..Len(invoked') :
                  invoked'[i].handler.registered_for # d]_vars

\* unsubscribeDrawing has just removed the list [H1, H2] of drawing-7.
C4_Witness ==
  /\ last.op = "unsubscribeDrawing"
  /\ last.drawing_id = "drawing-7"
  /\ last.removed = <<"H1", "H2">>
  /\ ~MapHas(subscriptions, "drawing-7")

\* C5: after disconnect() isConnected() is false, the handle is released, the
\* transport it referred to is closed and the registry is empty; disconnect()
\* with the handle already released changes nothing; a subscribeDrawing(d, h)
\* right after it leaves exactly [h] for d and nothing else; and no
\* registration that was in the registry when disconnect() was called is
\* ever invoked.
C5_DisconnectClearsEverything ==
  [][/\ StepDisconnect
        => /\ socket' = 0
           /\ subscriptions' = EmptyMap
           /\ ~isConnected(Cur)'
           /\ socket # 0 => sockets'[socket].status = "closed"
           /\ socket = 0 => UNCHANGED <<socket, sockets, subscriptions>>
     /\ (last.op = "disconnect" /\ StepSubscribe)
        => /\ DOMAIN subscriptions' = {last'.drawing_id}
           /\ HandlersOf(subscriptions'[last'.drawing_id]) = <<last'.handler>>
     /\ \A i \in 1..Len(invoked') : ~invoked'[i].handler.stale]_vars

\* disconnect() has just discarded two registrations and closed the
\* transport, while a transport it had closed earlier exists too.
C5_Witness ==
  /\ last.op = "disconnect"
  /\ last.cleared = 2
  /\ socket = 0
  /\ subscriptions = EmptyMap
  /\ Len(sockets) = 2
  /\ \A s \in Sockets : sockets[s].status = "closed"

\* C6: connect() in the Connected state creates no transport, registers no
\* listener, leaves the handle and the registry unchanged, and isConnected()
\* is still true.
C6_ConnectIdempotentWhenConnected ==
  [][(StepConnect /\ Connected(Cur))
     => /\ UNCHANGED <<socket, sockets, subscriptions>>
        /\ isConnected(Cur)'
        /\ emitted' = <<>>]_vars

\* connect() has just returned with the handle on a connected transport: a
\* transport connect() creates is still connecting.
C6_Witness ==
  /\ last.op = "connect"
  /\ Connected(Cur)
  /\ subscriptions # EmptyMap

\* C7: at most one transport the notifier created is open or attempting to
\* connect, and it is the one the handle refers to.
C7_SingleOpenTransport ==
  \A s \in Sockets : Open(sockets[s]) => s = socket

\* C8: subscribeDrawing(d, h) while not connected creates a transport through
\* connect(), pushes h at the end of d's list, and emits subscribe_drawing {d}
\* once, on the transport just created, which the handle now refers to.
C8_SubscribeConnectsBeforeEmit ==
  [][(StepSubscribe /\ ~Connected(Cur))
     => LET d == last'.drawing_id
            h == last'.handler
        IN  /\ sockets' = Append(sockets, On(io))
            /\ socket' = Len(sockets) + 1
            /\ subscriptions'[d] = Append(ListOf(d), Registration(d, h))
            /\ emitted' = <<[socket |-> socket', event |-> "subscribe_drawing",
                             drawing_id |-> d]>>]_vars

\* subscribeDrawing has just replaced a handle that was not connected: the
\* second transport is the handle, still connecting, and carries the message.
C8_Witness ==
  /\ last.op = "subscribeDrawing"
  /\ socket = 2
  /\ sockets[socket].status = "connecting"
  /\ emitted = <<[socket |-> 2, event |-> "subscribe_drawing",
                  drawing_id |-> last.drawing_id]>>

\* C9: a drawing_locked or drawing_unlocked message for a drawing id with no
\* subscriber list invokes no handler, emits nothing, and leaves the handle,
\* the transports and the registry unchanged.
C9_NoListNoDispatch ==
  [][((StepLocked \/ StepUnlocked)
      /\ ~MapHas(subscriptions, last'.data.drawing_id))
     => /\ invoked' = <<>>
        /\ emitted' = <<>>
        /\ UNCHANGED <<socket, sockets, subscriptions>>]_vars

\* A message for an unsubscribed id has arrived while the other id has
\* handlers.
C9_Witness ==
  /\ last.op \in {"drawing_locked", "drawing_unlocked"}
  /\ ~MapHas(subscriptions, last.data.drawing_id)
  /\ subscriptions # EmptyMap
  /\ invoked = <<>>

\* The number of times handler h occurs in a list of registrations.
Count(h, list) == Cardinality({i \in 1..Len(list) : list[i].handler = h})

\* The number of times handler h was invoked by the last step.
CountInvoked(h, calls) ==
  Cardinality({i \in 1..Len(calls) : calls[i].handler.handler = h})

\* C10: each subscribeDrawing(d, h) adds one more occurrence of h to d's list,
\* also when h is already in it, and a lock or unlock message for d invokes
\* each handler as many times as it occurs in d's list.
C10_NoDeduplication ==
  [][/\ StepSubscribe
        => Count(last'.handler, subscriptions'[last'.drawing_id]) =
             1 + Count(last'.handler, ListOf(last'.drawing_id))
     /\ (StepLocked \/ StepUnlocked)
        => \A h \in Handlers :
             CountInvoked(h, invoked') = Count(h, ListOf(last'.data.drawing_id))]_vars

\* H1 is three times in the list of drawing-42 and one message invoked it
\* three times.
C10_Witness ==
  /\ last.op \in {"drawing_locked", "drawing_unlocked"}
  /\ last.data.drawing_id = "drawing-42"
  /\ MapHas(subscriptions, "drawing-42")
  /\ HandlersOf(subscriptions["drawing-42"]) = <<"H1", "H1", "H1">>
  /\ CountInvoked("H1", invoked) = 3

\* C11: unsubscribeDrawing(d) for a drawing id with no subscriber list is a
\* no-op: it emits no message and leaves the handle, the transports and the
\* registry unchanged.
C11_UnsubscribeAbsentIsNoOp ==
  [][(StepUnsubscribe /\ ~MapHas(subscriptions, last'.drawing_id))
     => /\ emitted' = <<>>
        /\ UNCHANGED <<socket, sockets, subscriptions>>]_vars

\* The step is the arrival of the error message last' names.
StepError ==
  /\ last'.op = "error"
  /\ Receive(last'.socket, "error", last'.data)

\* C12: only a drawing_locked or drawing_unlocked message invokes handlers:
\* the calls, the transport's connect, disconnect and failure events and an
\* inbound error message invoke none, and an error message leaves the handle,
\* the transports and the registry unchanged.
C12_OnlyLockMessagesInvoke ==
  [][/\ last'.op \notin {"drawing_locked", "drawing_unlocked"} => invoked' = <<>>
     /\ StepError => UNCHANGED <<socket, sockets, subscriptions>>]_vars

\* An error message has arrived while handlers are registered.
C12_Witness ==
  /\ last.op = "error"
  /\ subscriptions # EmptyMap
  /\ invoked = <<>>

\* C15: whenever the handle is null the registry is empty.
C15_NoHandleNoSubscriptions ==
  socket = 0 => subscriptions = EmptyMap

\* disconnect() has just released the handle and discarded three
\* registrations.
C15_Witness ==
  /\ last.op = "disconnect"
  /\ last.cleared = 3
  /\ socket = 0
  /\ subscriptions = EmptyMap

\* C17: subscribeDrawing(d, h) and unsubscribeDrawing(d) leave the subscriber
\* list of every other drawing id as it was, and unsubscribeDrawing leaves the
\* handle and every transport as they were.
C17_OnlyOwnEntryChanges ==
  [][/\ (StepSubscribe \/ StepUnsubscribe)
        => \A e \in DrawingIds \ {last'.drawing_id} :
             /\ MapHas(subscriptions', e) = MapHas(subscriptions, e)
             /\ MapHas(subscriptions, e) => subscriptions'[e] = subscriptions[e]
     /\ StepUnsubscribe => UNCHANGED <<socket, sockets>>]_vars

\* unsubscribeDrawing has just removed the list of drawing-42 while
\* drawing-7 keeps its two handlers on a connected transport.
C17_Witness ==
  /\ last.op = "unsubscribeDrawing"
  /\ last.drawing_id = "drawing-42"
  /\ last.removed = <<"H1">>
  /\ MapHas(subscriptions, "drawing-7")
  /\ HandlersOf(subscriptions["drawing-7"]) = <<"H2", "H1">>
  /\ Connected(Cur)

\* The handle refers to a transport that has given up reconnecting.
Exhausted == socket # 0 /\ sockets[socket].status = "failed"

\* C13: once the handle's transport has exhausted its reconnectionAttempts the
\* connection stays unavailable: isConnected() is false and no event reaches a
\* handler, until connect() or subscribeDrawing creates a fresh transport;
\* no other step (unsubscribeDrawing and isConnected among them) brings the
\* connection back.
C13_ExhaustedStaysUnavailable ==
  [][Exhausted =>
       /\ ~isConnected(Cur)
       /\ sockets[socket].attempts = reconnectionAttempts
       /\ (StepConnect \/ StepSubscribe)
          => /\ socket' = Len(sockets) + 1
             /\ sockets' = Append(sockets, On(io))
       /\ ~(StepConnect \/ StepSubscribe \/ StepDisconnect)
          => /\ socket' = socket
             /\ sockets'[socket] = sockets[socket]
             /\ invoked' = <<>>]_vars

\* C14: whenever the notifier holds a handle, every drawing id with a
\* subscriber list has been announced on the transport the handle refers to:
\* the latest message emitted for it on that transport is subscribe_drawing.
C14_InterestAnnouncedOnHandle ==
  socket # 0 => DOMAIN subscriptions \subseteq announced

\* The step is the arrival of the message last' names, during which the
\* handler last'.thrown_by throws.
StepThrowing ==
  /\ last'.op \in {"drawing_locked", "drawing_unlocked"}
  /\ "thrown_by" \in DOMAIN last'
  /\ ReceiveThrowing(last'.socket, last'.op, last'.data, last'.thrown_by)

\* C16: when a handler registered for d throws while an event for d is
\* dispatched, every handler of d's list is still invoked for that event, and
\* the handle, the transports and the registry are unchanged.
C16_ThrowDoesNotStopDispatch ==
  [][StepThrowing
     => /\ HandlersOf([i \in 1..Len(invoked') |-> invoked'[i].handler]) =
             HandlersOf(subscriptions[last'.data.drawing_id])
        /\ UNCHANGED <<socket, sockets, subscriptions>>]_vars

(***************************************************************************)
(* Properties of the PDF viewer.                                           *)
(***************************************************************************)
\* C18: mounted on page 1, once a document has loaded the current page is
\* between 1 and totalPages after every step (page actions and loads of
\* another document); previous-page at page 1 and next-page at the last page
\* change nothing and make no onPageChange call; every other page action
\* moves by one page and calls onPageChange once with the new page.
C18_PageStaysInRange ==
  [][pageNumber = 1
     => /\ totalPages' >= 1 => currentPage' \in 1..totalPages'
        /\ totalPages >= 1 /\ viewerLast' = "handlePrevPage"
           => IF currentPage = 1
              THEN currentPage' = currentPage /\ pageChanges' = <<>>
              ELSE currentPage' = currentPage - 1
                   /\ pageChanges' = <<currentPage'>>
        /\ totalPages >= 1 /\ viewerLast' = "handleNextPage"
           => IF currentPage = totalPages
              THEN currentPage' = currentPage /\ pageChanges' = <<>>
              ELSE currentPage' = currentPage + 1
                   /\ pageChanges' = <<currentPage'>>]_vars

\* C19: as long as only zoom-in and zoom-out have set the scale, it stays
\* within [0.5, 3.0]; a zoom-in adds 0.25 unless the scale is 3.0 and a
\* zoom-out subtracts 0.25 unless the scale is 0.5, in which cases it is
\* unchanged; the rotation is always one of 0, 90, 180, 270, a rotate action
\* turns it by 90 degrees, and four rotations give the rotation back.
C19_ZoomAndRotateStayInRange ==
  [][/\ rotation' \in {0, 90, 180, 270}
     /\ Rotate(Rotate(Rotate(Rotate(rotation')))) = rotation'
     /\ viewerLast' = "handleRotate"
        => rotation' = IF rotation = 270 THEN 0 ELSE rotation + 90
     /\ ~fitted'
        => /\ scale' \in MinScale..MaxScale
           /\ viewerLast' = "handleZoomIn"
              => scale' = IF scale = MaxScale THEN scale ELSE scale + ZoomStep
           /\ viewerLast' = "handleZoomOut"
              => scale' = IF scale = MinScale THEN scale ELSE scale - ZoomStep
           /\ viewerLast' \notin {"handleZoomIn", "handleZoomOut"}
              => scale' = scale]_vars

\* A zoom-in has just been absorbed at 3.0 after three rotations.
C19_Witness ==
  /\ viewerLast = "handleZoomIn"
  /\ scale = MaxScale
  /\ rotation = 270
  /\ ~fitted

====
